---- MODULE Spec2Model ----
(***************************************************************************)
(* A model of opensfm/synthetic_data/synthetic_generator.py: the scene     *)
(* assembly functions (add_points_to_reconstruction,                       *)
(* add_shots_to_reconstruction, add_rigs_to_reconstruction as driven by    *)
(* create_reconstruction), the track synthesizer generate_track_data with  *)
(* its culling predicates, and the exif synthesizer generate_exifs.        *)
(*                                                                         *)
(* Conventions.  A Python str is a sequence of character codes; the ids    *)
(* used here are made of decimal digits, so "10" is <<1, 0>>.  A vector is *)
(* a 3-tuple of integers, a rotation matrix a 3-tuple of rows.  A real     *)
(* number that is not an integer is a fraction kept as numerator and       *)
(* denominator (projections) or a fixed-point number of thousandths        *)
(* (distances and capture times).  The process-wide random source is a     *)
(* nondeterministic choice among a few sample outcomes.                    *)
(***************************************************************************)
EXTENDS Integers, Sequences, FiniteSets, TLC

VARIABLES
    reconstruction,     \* types.Reconstruction: points, shots, cameras, rigs
    pc,                 \* the position of the running function
    calls,              \* how many calls the driving loop has made
    point_log,          \* history: the ids passed to create_point, in order
    shot_call,          \* history: the arguments and effect of the last add_shots call
    rig_log,            \* history: <<call number, id>> of every add_rig_instance
    maximum_depth,      \* generate_track_data: its parameters maximum_depth, noise
    noise,
    track_descriptors,  \* point id -> descriptor
    descriptor,         \* the descriptor being filled, not yet rounded
    filled,             \* iterations done of "for _ in range(non_zeroes)"
    track_iter,         \* points done of "for track_index in reconstruction.points"
    shot_iter,          \* shots done of "for shot_index, shot in ...shots.items()"
    proj_iter,          \* projections done of "for i, projection in enumerate(...)"
    projections_inside,
    descriptors_inside,
    colors_inside,
    features,           \* shot id -> array of (x, y, scale)
    descriptors,        \* shot id -> array of descriptors
    colors,             \* shot id -> array of colors
    tracks_manager,     \* the add_observation calls made, in order
    gps_noise,          \* generate_exifs: its parameter gps_noise
    exif_iter,          \* shots done of "for shot_name in sorted(...)"
    previous_pose,      \* <<>> is None
    previous_time,      \* in thousandths
    exifs,              \* shot name -> exif
    arg_projection,     \* _is_inside_camera: its arguments and its result
    arg_camera,
    is_inside

asmVars == <<calls, point_log, shot_call, rig_log>>

trkVars == <<maximum_depth, noise, track_descriptors, descriptor, filled,
             track_iter, shot_iter, proj_iter, projections_inside,
             descriptors_inside, colors_inside, features, descriptors, colors,
             tracks_manager>>

exfVars == <<gps_noise, exif_iter, previous_pose, previous_time, exifs>>

camVars == <<arg_projection, arg_camera, is_inside>>

vars == <<reconstruction, pc, asmVars, trkVars, exfVars, camVars>>

\* the variables of a function that is not running
AsmIdle ==
    /\ calls = 0
    /\ point_log = <<>>
    /\ shot_call = <<>>
    /\ rig_log = <<>>

TrkIdle ==
    /\ maximum_depth = 0
    /\ noise = 0
    /\ track_descriptors = <<>>
    /\ descriptor = <<>>
    /\ filled = 0
    /\ track_iter = 0
    /\ shot_iter = 0
    /\ proj_iter = 0
    /\ projections_inside = <<>>
    /\ descriptors_inside = <<>>
    /\ colors_inside = <<>>
    /\ features = <<>>
    /\ descriptors = <<>>
    /\ colors = <<>>
    /\ tracks_manager = <<>>

ExfIdle ==
    /\ gps_noise = 0
    /\ exif_iter = 0
    /\ previous_pose = <<>>
    /\ previous_time = 0
    /\ exifs = <<>>

CamIdle ==
    /\ arg_projection = <<>>
    /\ arg_camera = <<>>
    /\ is_inside = FALSE

----------------------------------------------------------------------------
(* Bounds of the model *)

\* how many calls (zip entries) one loop of create_reconstruction makes
MaxCalls == 2

\* the longest sequence of shot ids, positions or rotations given to one call
MaxLen == 2

\* the length of a descriptor: desc_size = 128, scaled down
DescSize == 5

\* the largest sensor width or height, in pixels
MaxDim == 3

----------------------------------------------------------------------------
(* Python and numpy primitives *)

\* str(n) for a non-negative int: its decimal digits
RECURSIVE str(_)
str(n) == IF n < 10 THEN <<n>> ELSE Append(str(n \div 10), n % 10)

Min2(a, b) == IF a < b THEN a ELSE b

Range(s) == {s[i] : i \in 1..Len(s)}

\* the ids of a sequence of records, in order
Keys(s) == [i \in 1..Len(s) |-> s[i].id]

\* the position of id in a sequence of records, 0 when absent
IndexOf(s, id) ==
    IF \E i \in 1..Len(s) : s[i].id = id
    THEN CHOOSE i \in 1..Len(s) : s[i].id = id
    ELSE 0

----------------------------------------------------------------------------
(* The scene-graph container *)

\* types.Reconstruction(): no points, shots, cameras or rigs
EmptyReconstruction ==
    [points |-> <<>>, shots |-> <<>>, cameras |-> {},
     rig_cameras |-> {}, rig_instances |-> <<>>]

\* an id-keyed mapping kept in insertion order: a new key is appended, an
\* existing key keeps its place and gets the new value
Put(s, entry) ==
    IF IndexOf(s, entry.id) = 0
    THEN Append(s, entry)
    ELSE [s EXCEPT ![IndexOf(s, entry.id)] = entry]

\* reconstruction.create_point(id, coordinates), then point.color = color
create_point(rec, id, coordinates, color) ==
    [rec EXCEPT !.points =
        Put(@, [id |-> id, coordinates |-> coordinates, color |-> color])]

----------------------------------------------------------------------------
(* add_points_to_reconstruction *)

\* a plausible slip: the ids restart at 0 in every call
ShiftFromZero(rec) == 0

\* shift = len(reconstruction.points)
PointShift(rec) == Len(rec.points)

\* the ids range(points.shape[0]) produces: str(shift + i)
PointIds(rec, n) == [k \in 1..n |-> str(PointShift(rec) + (k - 1))]

\* the loop body applied to rows k..n of points, ids fixed before the loop
RECURSIVE CreatePoints(_, _, _, _, _)
CreatePoints(rec, ids, points, color, k) ==
    IF k > Len(points) THEN rec
    ELSE CreatePoints(create_point(rec, ids[k], points[k], color),
                      ids, points, color, k + 1)

add_points_to_reconstruction(points, color, rec) ==
    CreatePoints(rec, PointIds(rec, Len(points)), points, color, 1)

\* the arrays of points create_reconstruction is given: 0, 1, 2, 3 or 6 rows
PointBatches ==
    { <<>>,
      << <<0, 0, 4>> >>,
      << <<1, 0, 4>>, <<0, 0, 8>> >>,
      << <<0, 1, 4>>, <<2, 0, 4>>, <<0, 0, 0>> >>,
      << <<0, 0, 4>>, <<1, 0, 4>>, <<2, 0, 4>>,
         <<0, 1, 4>>, <<0, 0, 8>>, <<0, 0, -3>> >> }

Colors == { <<255, 0, 0>>, <<0, 255, 0>>, <<0, 0, 255>> }

\* create_reconstruction, lines 229-230: one add_points call of the zip
AddPoints ==
    /\ pc = "points"
    /\ calls < MaxCalls
    /\ \E points \in PointBatches, color \in Colors :
         /\ reconstruction' = add_points_to_reconstruction(points, color, reconstruction)
         /\ point_log' = point_log \o PointIds(reconstruction, Len(points))
    /\ calls' = calls + 1
    /\ UNCHANGED <<pc, shot_call, rig_log, trkVars, exfVars, camVars>>

InitPoints ==
    /\ reconstruction = EmptyReconstruction
    /\ pc = "points"
    /\ AsmIdle
    /\ TrkIdle
    /\ ExfIdle
    /\ CamIdle

NextPoints == AddPoints

SpecPoints == InitPoints /\ [][NextPoints]_vars

----------------------------------------------------------------------------
(* add_shots_to_reconstruction *)

Min3(a, b, c) == Min2(a, Min2(b, c))

\* a plausible slip: an off-by-one that drops the last triple
ZipDropLast(a, b, c) ==
    [i \in 1..(Min3(Len(a), Len(b), Len(c)) - 1) |-> <<a[i], b[i], c[i]>>]

\* zip(a, b, c): the triples up to the end of the shortest sequence
zip(a, b, c) ==
    [i \in 1..Min3(Len(a), Len(b), Len(c)) |-> <<a[i], b[i], c[i]>>]

\* reconstruction.add_camera(camera)
add_camera(rec, camera) == [rec EXCEPT !.cameras = @ \cup {camera}]

\* pose = Pose(rotation); pose.set_origin(position);
\* reconstruction.create_shot(shot_id, camera.id, pose)
create_shot(rec, shot_id, camera_id, rotation, position) ==
    [rec EXCEPT !.shots =
        Put(@, [id |-> shot_id, camera |-> camera_id,
                rotation |-> rotation, origin |-> position])]

\* the loop body applied to triples k.. of the zip
RECURSIVE CreateShots(_, _, _, _)
CreateShots(rec, triples, camera, k) ==
    IF k > Len(triples) THEN rec
    ELSE CreateShots(
             create_shot(rec, triples[k][1], camera.id, triples[k][3], triples[k][2]),
             triples, camera, k + 1)

add_shots_to_reconstruction(shot_ids, positions, rotations, camera, rec) ==
    CreateShots(add_camera(rec, camera), zip(shot_ids, positions, rotations), camera, 1)

\* rotation matrices (rows): the identity, a half turn about y, a quarter
\* turn about y
Identity == << <<1, 0, 0>>, <<0, 1, 0>>, <<0, 0, 1>> >>
HalfTurnY == << <<-1, 0, 0>>, <<0, 1, 0>>, <<0, 0, -1>> >>
QuarterTurnY == << <<0, 0, -1>>, <<0, 1, 0>>, <<1, 0, 0>> >>

\* pygeometry.Camera: id, sensor width and height, focal ratio
LandscapeCamera == [id |-> "landscape", width |-> 4, height |-> 2, focal |-> 1]
PortraitCamera == [id |-> "portrait", width |-> 2, height |-> 4, focal |-> 1]
SquareCamera == [id |-> "square", width |-> 2, height |-> 2, focal |-> 1]

\* the caller's sequences for one call: n fresh ids, n positions, n rotations
FreshShotIds(first, n) == [k \in 1..n |-> str(first + (k - 1))]
SomePositions(n) == [k \in 1..n |-> <<3 * (k - 1), 0, 2>>]
SomeRotations(n) ==
    [k \in 1..n |-> IF k % 2 = 1 THEN Identity ELSE HalfTurnY]

\* create_reconstruction, lines 232-237: one add_shots call of the zip, with
\* sequences of any lengths up to MaxLen and shot ids not used before
AddShots ==
    /\ pc = "shots"
    /\ calls < MaxCalls
    /\ \E n_ids \in 0..MaxLen, n_pos \in 0..MaxLen, n_rot \in 0..MaxLen,
          camera \in {LandscapeCamera, PortraitCamera} :
         LET shot_ids == FreshShotIds(calls * (MaxLen + 1), n_ids)
             positions == SomePositions(n_pos)
             rotations == SomeRotations(n_rot)
         IN /\ reconstruction' =
                  add_shots_to_reconstruction(shot_ids, positions, rotations,
                                           camera, reconstruction)
            /\ shot_call' = [shot_ids |-> shot_ids, positions |-> positions,
                             rotations |-> rotations, camera |-> camera,
                             before |-> reconstruction.shots]
    /\ calls' = calls + 1
    /\ UNCHANGED <<pc, point_log, rig_log, trkVars, exfVars, camVars>>

InitShots ==
    /\ reconstruction = EmptyReconstruction
    /\ pc = "shots"
    /\ AsmIdle
    /\ TrkIdle
    /\ ExfIdle
    /\ CamIdle

NextShots == AddShots

SpecShots == InitShots /\ [][NextShots]_vars

----------------------------------------------------------------------------
(* add_rigs_to_reconstruction *)

MatVec(m, v) ==
    [r \in 1..3 |-> m[r][1] * v[1] + m[r][2] * v[2] + m[r][3] * v[3]]

Neg(v) == [k \in 1..3 |-> -v[k]]

\* lines 202-207: a rig camera is added unless its id is already there
AddRigCameras(rec, rig_cameras) ==
    [rec EXCEPT !.rig_cameras = @ \cup Range(rig_cameras)]

\* the id enumerate() gives the i-th rig instance of a call (i from 0)
RigInstanceId(i) == i

\* reconstruction.add_rig_instance(pymap.RigInstance(i)), the add_shot calls
\* and the pose: an instance with the id of an existing one replaces it
add_rig_instance(rec, i, i_shots, position, rotation, rig_cameras) ==
    [rec EXCEPT !.rig_instances =
        Put(@, [id |-> RigInstanceId(i),
                shots |-> [j \in 1..Len(i_shots) |->
                              <<rig_cameras[j], i_shots[j][1]>>],
                rotation |-> rotation,
                translation |-> Neg(MatVec(rotation, position))])]

\* the loop body applied to triples k.. of the zip; i = k - 1
RECURSIVE AddRigInstances(_, _, _, _)
AddRigInstances(rec, triples, rig_cameras, k) ==
    IF k > Len(triples) THEN rec
    ELSE AddRigInstances(
             add_rig_instance(rec, k - 1, triples[k][1], triples[k][2],
                            triples[k][3], rig_cameras),
             triples, rig_cameras, k + 1)

add_rigs_to_reconstruction(shots, positions, rotations, rig_cameras, rec) ==
    AddRigInstances(AddRigCameras(rec, rig_cameras),
                    zip(shots, positions, rotations), rig_cameras, 1)

\* the reconstruction the rigs are added to: four shots "0".."3"
RigReconstruction ==
    add_shots_to_reconstruction(FreshShotIds(0, 4), SomePositions(4),
                             SomeRotations(4), LandscapeCamera,
                             EmptyReconstruction)

\* the rig shots of one call: per rig instance, the list of its shots, each
\* shot a tuple whose first entry is the shot id
RigShotLists ==
    { <<>>,
      << << <<str(0), 0>> >> >>,
      << << <<str(0), 0>>, <<str(1), 1>> >> >>,
      << << <<str(0), 0>>, <<str(1), 1>> >>, << <<str(2), 0>>, <<str(3), 1>> >> >>,
      << << <<str(2), 0>> >>, << <<str(3), 0>> >> >> }

RigCameraLists == { <<"front", "back">>, <<"left", "right">> }

\* create_reconstruction, lines 239-249: one add_rigs call of the zip
AddRigs ==
    /\ pc = "rigs"
    /\ calls < MaxCalls
    /\ \E shots \in RigShotLists, n_pos \in 1..2, rig_cameras \in RigCameraLists :
         LET positions == SomePositions(n_pos)
             rotations == SomeRotations(2)
             triples == zip(shots, positions, rotations)
         IN /\ reconstruction' =
                  add_rigs_to_reconstruction(shots, positions, rotations,
                                          rig_cameras, reconstruction)
            /\ rig_log' = rig_log \o
                  [k \in 1..Len(triples) |-> <<calls + 1, RigInstanceId(k - 1)>>]
    /\ calls' = calls + 1
    /\ UNCHANGED <<pc, point_log, shot_call, trkVars, exfVars, camVars>>

InitRigs ==
    /\ reconstruction = RigReconstruction
    /\ pc = "rigs"
    /\ AsmIdle
    /\ TrkIdle
    /\ ExfIdle
    /\ CamIdle

NextRigs == AddRigs

SpecRigs == InitRigs /\ [][NextRigs]_vars

----------------------------------------------------------------------------
(* Fractions: <<numerator, denominator>> with denominator > 0; a denominator
   of 0 is a non-finite float (nan, inf), as a division by zero gives *)

Frac(n, d) == IF d < 0 THEN <<-n, -d>> ELSE <<n, d>>

FracAdd(a, b) == <<a[1] * b[2] + b[1] * a[2], a[2] * b[2]>>

\* lo < v < hi as Python chains it; every comparison with a nan is False,
\* and no inf lies between two finite bounds
Between(lo, v, hi) ==
    /\ v[2] # 0
    /\ lo[1] * v[2] < v[1] * lo[2]
    /\ v[1] * hi[2] < hi[1] * v[2]

\* numpy's round of n/d (d > 0): to the nearest integer, a tie to the even one
RoundHalfEven(v) ==
    LET n == v[1]
        d == v[2]
        q == n \div d
        r == n % d
    IN IF 2 * r < d THEN q
       ELSE IF 2 * r > d THEN q + 1
       ELSE IF q % 2 = 0 THEN q ELSE q + 1

----------------------------------------------------------------------------
(* The culling predicates *)

Sub(a, b) == [k \in 1..3 |-> a[k] - b[k]]

Dot(a, b) == a[1] * b[1] + a[2] * b[2] + a[3] * b[3]

Max2(a, b) == IF a > b THEN a ELSE b

\* shot.pose.transform(coordinates): the camera-space coordinates R (p - origin)
transform(shot, coordinates) ==
    MatVec(shot.rotation, Sub(coordinates, shot.origin))

\* the camera's projection of one camera-space point: focal * (x/z, y/z)
Project(camera, c) ==
    <<Frac(camera.focal * c[1], c[3]), Frac(camera.focal * c[2], c[3])>>

\* shot.project_many(np.array(all_coordinates))
project_many(shot, camera, all_coordinates) ==
    [i \in 1..Len(all_coordinates) |->
        Project(camera, transform(shot, all_coordinates[i]))]

\* a plausible slip: the depth bound taken as inclusive
CheckDepthInclusive(point, shot, max_depth) ==
    transform(shot, point.coordinates)[3] <= max_depth

\* _check_depth
_check_depth(point, shot, max_depth) ==
    transform(shot, point.coordinates)[3] < max_depth

\* _is_in_front
_is_in_front(point, shot) ==
    Dot(Sub(point.coordinates, shot.origin), shot.rotation[3]) > 0

\* a plausible slip: the two branches bound the wrong coordinates
IsInsideCameraSwapped(projection, camera) ==
    IF camera.width > camera.height
    THEN /\ Between(<<-1, 2>>, projection[2], <<1, 2>>)
         /\ Between(<<-camera.height, 2 * camera.width>>, projection[1],
                    <<camera.height, 2 * camera.width>>)
    ELSE /\ Between(<<-1, 2>>, projection[1], <<1, 2>>)
         /\ Between(<<-camera.width, 2 * camera.height>>, projection[2],
                    <<camera.width, 2 * camera.height>>)

\* _is_inside_camera
_is_inside_camera(projection, camera) ==
    IF camera.width > camera.height
    THEN /\ Between(<<-1, 2>>, projection[1], <<1, 2>>)
         /\ Between(<<-camera.height, 2 * camera.width>>, projection[2],
                    <<camera.height, 2 * camera.width>>)
    ELSE /\ Between(<<-1, 2>>, projection[2], <<1, 2>>)
         /\ Between(<<-camera.width, 2 * camera.height>>, projection[1],
                    <<camera.width, 2 * camera.height>>)

----------------------------------------------------------------------------
(* generate_track_data *)

non_zeroes == 5

\* default_scale = 0.004
default_scale == <<4, 1000>>

\* np.zeros(desc_size), with desc_size scaled down to DescSize
ZeroDescriptor == [k \in 1..DescSize |-> <<0, 1>>]

\* np.random.random(): the outcomes 0.0 and 0.5
RandomSamples == { <<0, 1>>, <<1, 2>> }

\* np.random.normal(0.0, 1.0, 2): two outcomes, per axis, in units of sigma
GaussianSamples == { <<0, 0>>, <<2, -1>> }

\* the value of an id-keyed mapping at a key
At(s, id) == s[IndexOf(s, id)].value

\* the camera object of a shot
CameraOf(rec, shot) == CHOOSE c \in rec.cameras : c.id = shot.camera

\* lines 274-275: one iteration of "for _ in range(non_zeroes)"
DrawDescriptorEntry ==
    /\ pc = "descriptors"
    /\ track_iter < Len(reconstruction.points)
    /\ filled < non_zeroes
    /\ \E index \in 0..(DescSize - 1), u \in RandomSamples :
         descriptor' = [descriptor EXCEPT ![index + 1] = <<u[1] * 255, u[2]>>]
    /\ filled' = filled + 1
    /\ UNCHANGED <<reconstruction, pc, asmVars, exfVars, camVars, maximum_depth, noise,
                   track_descriptors, track_iter, shot_iter, proj_iter,
                   projections_inside, descriptors_inside, colors_inside,
                   features, descriptors, colors, tracks_manager>>

\* descriptor.round().astype(feature_data_type)
Rounded(d) == [k \in 1..Len(d) |-> RoundHalfEven(d[k])]

\* line 276, and line 272 of the next iteration
StoreDescriptor ==
    /\ pc = "descriptors"
    /\ track_iter < Len(reconstruction.points)
    /\ filled = non_zeroes
    /\ track_descriptors' =
          Put(track_descriptors,
              [id |-> reconstruction.points[track_iter + 1].id,
               value |-> Rounded(descriptor)])
    /\ track_iter' = track_iter + 1
    /\ descriptor' = ZeroDescriptor
    /\ filled' = 0
    /\ UNCHANGED <<reconstruction, pc, asmVars, exfVars, camVars, maximum_depth, noise,
                   shot_iter, proj_iter, projections_inside,
                   descriptors_inside, colors_inside, features, descriptors,
                   colors, tracks_manager>>

\* lines 278-281: the descriptor loop is over, the shot loop starts
StartShots ==
    /\ pc = "descriptors"
    /\ track_iter = Len(reconstruction.points)
    /\ pc' = "project"
    /\ UNCHANGED <<reconstruction, asmVars, trkVars, exfVars, camVars>>

\* a plausible slip: the key of the first point instead of the i-th
OriginalKeyFirst(all_keys, i) == all_keys[1]

\* original_key = all_keys[i]
OriginalKey(all_keys, i) == all_keys[i]

\* a plausible slip: the enumerate index i used as the feature index
FeatureIndexEnumerate(inside, i) == i

\* len(projections_inside) - 1, after the append
FeatureIndex(inside, i) == Len(inside) - 1

\* a plausible slip: the descriptor looked up by row number, not by key
AppendDescriptorByRow(inside, descs, original_key) ==
    Append(inside, descs[Len(inside) + 1].value)

\* descriptors_inside.append(track_descriptors[original_key])
AppendDescriptor(inside, descs, original_key) ==
    Append(inside, At(descs, original_key))

\* perturb_points on one point: each axis gets sigma times a standard normal
\* sample; the sigmas used here are above eps, so max(s, eps) is s
PerturbPoint(point, sigma, g) ==
    <<FracAdd(point[1], <<sigma[1] * g[1], sigma[2]>>),
      FracAdd(point[2], <<sigma[1] * g[2], sigma[2]>>)>>

\* tracks_manager.add_observation(str(shot_index), str(original_key), obs);
\* both keys are str already
add_observation(manager, shot_index, original_key, obs) ==
    Append(manager, [shot |-> shot_index, track |-> original_key, obs |-> obs])

\* lines 293-328: one iteration of "for i, projection in enumerate(projections)"
ProcessProjection ==
    /\ pc = "project"
    /\ shot_iter < Len(reconstruction.shots)
    /\ proj_iter < Len(reconstruction.points)
    /\ LET shot == reconstruction.shots[shot_iter + 1]
           camera == CameraOf(reconstruction, shot)
           all_keys == Keys(reconstruction.points)
           all_values == reconstruction.points
           all_coordinates == [k \in 1..Len(all_values) |-> all_values[k].coordinates]
           i == proj_iter
           projection == project_many(shot, camera, all_coordinates)[i + 1]
           original_key == OriginalKey(all_keys, i + 1)
           original_point == all_values[i + 1]
       IN IF ~_is_inside_camera(projection, camera)
             \/ ~_is_in_front(original_point, shot)
             \/ ~_check_depth(original_point, shot, maximum_depth)
          THEN UNCHANGED <<projections_inside, descriptors_inside,
                           colors_inside, tracks_manager>>
          ELSE \E g \in GaussianSamples :
                 LET perturbation == <<noise, Max2(camera.width, camera.height)>>
                     perturbed == PerturbPoint(projection, perturbation, g)
                     inside == Append(projections_inside,
                                      <<perturbed[1], perturbed[2], default_scale>>)
                     obs == [x |-> perturbed[1], y |-> perturbed[2],
                             scale |-> default_scale,
                             color |-> original_point.color,
                             id |-> FeatureIndex(inside, i)]
                 IN /\ projections_inside' = inside
                    /\ descriptors_inside' =
                          AppendDescriptor(descriptors_inside, track_descriptors,
                                           original_key)
                    /\ colors_inside' = Append(colors_inside, original_point.color)
                    /\ tracks_manager' =
                          add_observation(tracks_manager, shot.id, original_key, obs)
    /\ proj_iter' = proj_iter + 1
    /\ UNCHANGED <<reconstruction, pc, asmVars, exfVars, camVars, maximum_depth, noise,
                   track_descriptors, descriptor, filled, track_iter, shot_iter,
                   features, descriptors, colors>>

\* lines 329-331, and lines 290-292 of the next iteration
FinishShot ==
    /\ pc = "project"
    /\ shot_iter < Len(reconstruction.shots)
    /\ proj_iter = Len(reconstruction.points)
    /\ LET shot_index == reconstruction.shots[shot_iter + 1].id
       IN /\ features' = Put(features, [id |-> shot_index, value |-> projections_inside])
          /\ colors' = Put(colors, [id |-> shot_index, value |-> colors_inside])
          /\ descriptors' =
                Put(descriptors, [id |-> shot_index, value |-> descriptors_inside])
    /\ shot_iter' = shot_iter + 1
    /\ proj_iter' = 0
    /\ projections_inside' = <<>>
    /\ descriptors_inside' = <<>>
    /\ colors_inside' = <<>>
    /\ UNCHANGED <<reconstruction, pc, asmVars, exfVars, camVars, maximum_depth, noise,
                   track_descriptors, descriptor, filled, track_iter,
                   tracks_manager>>

\* line 333
ReturnTracks ==
    /\ pc = "project"
    /\ shot_iter = Len(reconstruction.shots)
    /\ pc' = "done"
    /\ UNCHANGED <<reconstruction, asmVars, trkVars, exfVars, camVars>>

\* where the single point of a scene may be: on and off the axis of the
\* camera at the world origin, on the bounds of its view, at its origin and
\* behind it
PointCoordinates ==
    { <<0, 0, 4>>, <<1, 0, 4>>, <<2, 0, 4>>, <<0, 1, 4>>, <<0, 2, 4>>,
      <<0, 0, 8>>, <<0, 0, 0>>, <<0, 0, -3>> }

\* the shots of a scene: a camera, and the origins and rotations of two shots
LandscapeShots ==
    [camera |-> LandscapeCamera,
     positions |-> << <<0, 0, 0>>, <<0, 0, 8>> >>,
     rotations |-> <<Identity, HalfTurnY>>]
PortraitShots ==
    [camera |-> PortraitCamera,
     positions |-> << <<0, 0, 0>>, <<0, 0, -4>> >>,
     rotations |-> <<Identity, Identity>>]
SquareShots ==
    [camera |-> SquareCamera,
     positions |-> << <<-4, 0, 4>>, <<0, 0, 0>> >>,
     rotations |-> <<QuarterTurnY, Identity>>]

\* the scenes of one point: every place, seen by every pair of shots
OnePointScenes ==
    [points : { <<p>> : p \in PointCoordinates },
     shots : {LandscapeShots, PortraitShots, SquareShots},
     maximum_depth : {4, 8}]

\* the scenes of two points: the first culled by both shots; the first
\* culled by one shot only; the first culled by its depth
TwoPointScenes ==
    { [points |-> << <<0, 0, -3>>, <<0, 0, 4>> >>,
       shots |-> LandscapeShots, maximum_depth |-> 8],
      [points |-> << <<1, 0, 4>>, <<0, 0, 4>> >>,
       shots |-> PortraitShots, maximum_depth |-> 9],
      [points |-> << <<0, 0, 8>>, <<0, 0, 4>> >>,
       shots |-> SquareShots, maximum_depth |-> 8] }

TrackScenes == OnePointScenes \cup TwoPointScenes

\* create_reconstruction on one sequence of shots and on one array per
\* point, the first red and the second green
Scene(points, shots) ==
    LET first == add_points_to_reconstruction(<<points[1]>>, <<255, 0, 0>>,
                                           EmptyReconstruction)
        all == IF Len(points) = 1 THEN first
               ELSE add_points_to_reconstruction(<<points[2]>>, <<0, 255, 0>>, first)
    IN add_shots_to_reconstruction(
           FreshShotIds(0, Len(shots.positions)), shots.positions,
           shots.rotations, shots.camera, all)

\* generate_track_data(reconstruction, maximum_depth, noise), lines 265-272
InitTracks ==
    /\ \E scene \in TrackScenes :
         /\ reconstruction = Scene(scene.points, scene.shots)
         /\ maximum_depth = scene.maximum_depth
    /\ pc = "descriptors"
    /\ AsmIdle
    /\ noise = 1
    /\ track_descriptors = <<>>
    /\ descriptor = ZeroDescriptor
    /\ filled = 0
    /\ track_iter = 0
    /\ shot_iter = 0
    /\ proj_iter = 0
    /\ projections_inside = <<>>
    /\ descriptors_inside = <<>>
    /\ colors_inside = <<>>
    /\ features = <<>>
    /\ descriptors = <<>>
    /\ colors = <<>>
    /\ tracks_manager = <<>>
    /\ ExfIdle
    /\ CamIdle

NextTracks ==
    \/ DrawDescriptorEntry
    \/ StoreDescriptor
    \/ StartShots
    \/ ProcessProjection
    \/ FinishShot
    \/ ReturnTracks

SpecTracks == InitTracks /\ [][NextTracks]_vars

----------------------------------------------------------------------------
(* generate_exifs *)

speed_ms == 10

\* the largest r in lo..hi with r * r <= n
RECURSIVE RootBetween(_, _, _)
RootBetween(n, lo, hi) ==
    IF lo = hi THEN lo
    ELSE LET mid == (lo + hi + 1) \div 2
         IN IF mid * mid <= n THEN RootBetween(n, mid, hi)
            ELSE RootBetween(n, lo, mid - 1)

\* np.linalg.norm(v), in thousandths, rounded down
norm(v) == RootBetween(1000000 * Dot(v, v), 0, 40000)

\* a < b for two str: the order sorted() puts them in
RECURSIVE StrLess(_, _)
StrLess(a, b) ==
    IF Len(b) = 0 THEN FALSE
    ELSE IF Len(a) = 0 THEN TRUE
    ELSE IF a[1] # b[1] THEN a[1] < b[1]
    ELSE StrLess(Tail(a), Tail(b))

\* sorted(keys): the keys of a set in ascending order
RECURSIVE sorted(_)
sorted(keys) ==
    IF keys = {} THEN <<>>
    ELSE LET least == CHOOSE k \in keys : \A o \in keys \ {k} : StrLess(k, o)
         IN <<least>> \o sorted(keys \ {least})

\* perturb_points on one 3D point: each axis gets sigma times a standard
\* normal sample; the sigmas used here are above eps, so max(s, eps) is s
PerturbPose(point, sigmas, g) == [k \in 1..3 |-> point[k] + sigmas[k] * g[k]]

\* np.random.normal(0.0, 1.0, 3): two outcomes, per axis, in units of sigma
GaussianSamples3 == { <<0, 0, 0>>, <<3, -1, 2>> }

\* a plausible slip: the pose is perturbed in place (no copy into pose_arr),
\* so previous_pose, the same array, is perturbed with it
ExifIterationInPlace(shot, prev_pose, prev_time, sigma, g) ==
    LET pose == shot.origin
        time == IF prev_pose # <<>>
                THEN prev_time + norm(Sub(pose, prev_pose)) * speed_ms
                ELSE prev_time
        perturbed == PerturbPose(pose, <<sigma, sigma, sigma>>, g)
    IN [previous_pose |-> perturbed,
        previous_time |-> time,
        exif |-> [capture_time |-> time, gps |-> perturbed, dop |-> sigma]]

\* lines 138-158: previous_pose keeps the origin as get_origin() returned it;
\* the perturbation works on the copy np.array([pose]) makes.  The exif keeps
\* the perturbed position where the code keeps its latitude, longitude and
\* altitude
ExifIteration(shot, prev_pose, prev_time, sigma, g) ==
    LET pose == shot.origin
        time == IF prev_pose # <<>>
                THEN prev_time + norm(Sub(pose, prev_pose)) * speed_ms
                ELSE prev_time
        pose_arr == <<pose>>
        perturbed == PerturbPose(pose_arr[1], <<sigma, sigma, sigma>>, g)
    IN [previous_pose |-> pose,
        previous_time |-> time,
        exif |-> [capture_time |-> time, gps |-> perturbed, dop |-> sigma]]

\* one iteration of "for shot_name in sorted(reconstruction.shots.keys())"
VisitShot ==
    /\ pc = "exifs"
    /\ exif_iter < Len(reconstruction.shots)
    /\ LET shot_name == sorted(Range(Keys(reconstruction.shots)))[exif_iter + 1]
           shot == reconstruction.shots[IndexOf(reconstruction.shots, shot_name)]
       IN \E g \in GaussianSamples3 :
            LET r == ExifIteration(shot, previous_pose, previous_time, gps_noise, g)
            IN /\ previous_pose' = r.previous_pose
               /\ previous_time' = r.previous_time
               /\ exifs' = Put(exifs, [id |-> shot_name, value |-> r.exif])
    /\ exif_iter' = exif_iter + 1
    /\ UNCHANGED <<reconstruction, pc, asmVars, trkVars, camVars, gps_noise>>

\* line 159
ReturnExifs ==
    /\ pc = "exifs"
    /\ exif_iter = Len(reconstruction.shots)
    /\ pc' = "exifs_done"
    /\ UNCHANGED <<reconstruction, asmVars, trkVars, exfVars, camVars>>

\* the shot ids of a trajectory: in and out of sorted order, "10" before "2"
ExifShotIds ==
    { <<str(0), str(1), str(2)>>,
      <<str(2), str(10), str(1)>>,
      <<str(11), str(1), str(10)>> }

\* the camera origins of a trajectory: corners of a 3 x 4 rectangle and a
\* point off it, in any order and with repeats
ExifOrigins == { <<0, 0, 0>>, <<3, 4, 0>>, <<3, 0, 0>>, <<1, 1, 1>> }

\* generate_exifs(reconstruction, gps_noise), lines 124-128
InitExifs ==
    /\ \E shot_ids \in ExifShotIds, positions \in [1..3 -> ExifOrigins] :
         reconstruction =
             add_shots_to_reconstruction(shot_ids, positions, SomeRotations(3),
                                      LandscapeCamera, EmptyReconstruction)
    /\ pc = "exifs"
    /\ AsmIdle
    /\ TrkIdle
    /\ CamIdle
    /\ gps_noise = 1
    /\ exif_iter = 0
    /\ previous_pose = <<>>
    /\ previous_time = 0
    /\ exifs = <<>>

NextExifs ==
    \/ VisitShot
    \/ ReturnExifs

SpecExifs == InitExifs /\ [][NextExifs]_vars

----------------------------------------------------------------------------
(* _is_inside_camera on its own *)

\* the coordinates of a projection: the multiples of 1/(2L) around
\* (-1/2, 1/2) for every sensor dimension L, and a nan
Coordinates ==
    { <<k, 2 * L>> : L \in 1..MaxDim, k \in (-(MaxDim + 1))..(MaxDim + 1) }
        \cup { <<0, 0>> }

CallIsInsideCamera ==
    /\ pc = "inside"
    /\ is_inside' = _is_inside_camera(arg_projection, arg_camera)
    /\ pc' = "inside_done"
    /\ UNCHANGED <<reconstruction, asmVars, trkVars, exfVars,
                   arg_projection, arg_camera>>

InitCamera ==
    /\ reconstruction = EmptyReconstruction
    /\ pc = "inside"
    /\ AsmIdle
    /\ TrkIdle
    /\ ExfIdle
    /\ arg_projection \in Coordinates \X Coordinates
    /\ arg_camera \in [id : {"camera"}, width : 1..MaxDim, height : 1..MaxDim,
                       focal : {1}]
    /\ is_inside = FALSE

NextCamera == CallIsInsideCamera

SpecCamera == InitCamera /\ [][NextCamera]_vars

----------------------------------------------------------------------------
(* C7 *)

\* int(s) for a str of decimal digits
RECURSIVE ParseInt(_)
ParseInt(s) ==
    IF Len(s) = 0 THEN 0
    ELSE 10 * ParseInt(SubSeq(s, 1, Len(s) - 1)) + s[Len(s)]

\* C7: after any sequence of add_points_to_reconstruction calls on a
\* reconstruction that starts empty, the k-th point ever created (0-based)
\* got the id str(k): the ids of all calls are pairwise distinct, no call
\* re-creates an id of an earlier call, and the container's id set is
\* exactly {"0", ..., "total-1"}.
PointIdsSequential ==
    LET total == Len(point_log) IN
    /\ \A i, j \in 1..total : i # j => point_log[i] # point_log[j]
    /\ \A k \in 1..total : ParseInt(point_log[k]) = k - 1
    /\ Len(reconstruction.points) = total
    /\ Range(Keys(reconstruction.points)) = Range(point_log)
    /\ \A k \in 1..total : reconstruction.points[k].id = point_log[k]

\* two calls of six points each: the second starts at shift 6 and creates
\* the two-digit ids "10" and "11"
PointIdsWitness ==
    /\ calls >= 2
    /\ Len(reconstruction.points) = 12
    /\ <<1, 1>> \in Range(Keys(reconstruction.points))

----------------------------------------------------------------------------
(* C9 *)

\* C9: add_shots_to_reconstruction given shot_ids, positions and rotations
\* of any (different) lengths creates exactly min(len(shot_ids),
\* len(positions), len(rotations)) shots: the i-th created shot has the i-th
\* id, the i-th position as its origin and the i-th rotation, and no shot is
\* created for the surplus ids.
ShotsTruncateToShortest ==
    shot_call # <<>> =>
        LET c == shot_call
            before == Len(c.before)
            n == IF Len(c.shot_ids) <= Len(c.positions)
                    /\ Len(c.shot_ids) <= Len(c.rotations) THEN Len(c.shot_ids)
                 ELSE IF Len(c.positions) <= Len(c.rotations) THEN Len(c.positions)
                 ELSE Len(c.rotations)
        IN /\ Len(reconstruction.shots) = before + n
           /\ SubSeq(reconstruction.shots, 1, before) = c.before
           /\ \A i \in 1..n :
                reconstruction.shots[before + i] =
                    [id |-> c.shot_ids[i], camera |-> c.camera.id,
                     rotation |-> c.rotations[i], origin |-> c.positions[i]]
           /\ \A i \in (n + 1)..Len(c.shot_ids) :
                c.shot_ids[i] \notin Range(Keys(reconstruction.shots))

\* a call with two ids, two rotations and one position created one shot
ShotsTruncateWitness ==
    /\ shot_call # <<>>
    /\ Len(shot_call.shot_ids) = 2
    /\ Len(shot_call.positions) = 1
    /\ Len(shot_call.rotations) = 2
    /\ Len(reconstruction.shots) = Len(shot_call.before) + 1

----------------------------------------------------------------------------
(* C10 *)

\* C10: across successive calls of add_rigs_to_reconstruction on the same
\* reconstruction, every rig instance is created with an id distinct from
\* the ids of the rig instances created by earlier calls.
RigInstanceIdsDistinctAcrossCalls ==
    \A a, b \in 1..Len(rig_log) :
        rig_log[a][1] # rig_log[b][1] => rig_log[a][2] # rig_log[b][2]

----------------------------------------------------------------------------
(* C1 - C5: generate_track_data *)

Abs(x) == IF x < 0 THEN -x ELSE x

\* the a-th shot has been through the b-th point
Processed(a, b) == a <= shot_iter \/ (a = shot_iter + 1 /\ b <= proj_iter)

\* an observation of the b-th point was emitted for the a-th shot
Observed(a, b) ==
    \E k \in 1..Len(tracks_manager) :
        /\ tracks_manager[k].shot = reconstruction.shots[a].id
        /\ tracks_manager[k].track = reconstruction.points[b].id

\* the b-th point minus the origin of the a-th shot
FromCamera(a, b) ==
    LET p == reconstruction.points[b].coordinates
        o == reconstruction.shots[a].origin
    IN <<p[1] - o[1], p[2] - o[2], p[3] - o[3]>>

\* the camera-space coordinate k of the b-th point for the a-th shot
CameraSpace(a, b, k) ==
    LET r == reconstruction.shots[a].rotation[k]
        v == FromCamera(a, b)
    IN r[1] * v[1] + r[2] * v[2] + r[3] * v[3]

\* the projection focal * (x/z, y/z) lies strictly inside the sensor: the
\* longer dimension spans (-1/2, 1/2), the shorter +/- short / (2 long)
InFieldOfView(a, b) ==
    LET cam == CameraOf(reconstruction, reconstruction.shots[a])
        x == Abs(cam.focal * CameraSpace(a, b, 1))
        y == Abs(cam.focal * CameraSpace(a, b, 2))
        z == Abs(CameraSpace(a, b, 3))
        w == cam.width
        h == cam.height
    IN /\ z # 0
       /\ w > h => 2 * x < z /\ 2 * w * y < h * z
       /\ h > w => 2 * y < z /\ 2 * h * x < w * z
       /\ w = h => 2 * x < z /\ 2 * y < z

\* C1: for every shot and every point the shot has been through, an
\* observation is emitted if and only if the (unperturbed) projection is
\* inside the field of view, the dot product of (point - origin) with the
\* third row of the rotation is strictly positive and the camera-space z is
\* strictly below maximum_depth; a point at the camera origin, behind the
\* camera or at a depth >= maximum_depth is never observed.
ObservedIffNotCulled ==
    \A a \in 1..Len(reconstruction.shots), b \in 1..Len(reconstruction.points) :
        LET z == CameraSpace(a, b, 3) IN
        /\ Processed(a, b) =>
             (Observed(a, b) <=> InFieldOfView(a, b) /\ z > 0 /\ z < maximum_depth)
        /\ ~Processed(a, b) => ~Observed(a, b)
        /\ (FromCamera(a, b) = <<0, 0, 0>> \/ z <= 0 \/ z >= maximum_depth)
             => ~Observed(a, b)

\* a finished run in which one point is observed and another, in view and in
\* front, is culled because its depth equals maximum_depth
ObservedIffNotCulledWitness ==
    /\ pc = "done"
    /\ \E a \in 1..Len(reconstruction.shots), b \in 1..Len(reconstruction.points) :
         Observed(a, b)
    /\ \E a \in 1..Len(reconstruction.shots), b \in 1..Len(reconstruction.points) :
         /\ InFieldOfView(a, b)
         /\ CameraSpace(a, b, 3) = maximum_depth
         /\ ~Observed(a, b)

\* the rows of a per-shot output array (features, descriptors or colors) for
\* the a-th shot: the finished array, or the list being built
Rows(done, inside, a) ==
    IF a <= shot_iter THEN At(done, reconstruction.shots[a].id)
    ELSE IF a = shot_iter + 1 THEN inside
    ELSE <<>>

\* the observations added for the a-th shot, in order
ObservationsOf(a) ==
    SelectSeq(tracks_manager, LAMBDA e : e.shot = reconstruction.shots[a].id)

ShotIndex(id) == IndexOf(reconstruction.shots, id)

\* the descriptor row that goes with an observation: the row of its shot's
\* descriptors array at its feature index
DescriptorOf(e) ==
    Rows(descriptors, descriptors_inside, ShotIndex(e.shot))[e.obs.id + 1]

\* C2: every emitted observation's descriptor has exactly 5 nonzero entries,
\* all of them in [0, 255], whatever the random indices and values were.
DescriptorHasFiveNonZeroes ==
    \A k \in 1..Len(tracks_manager) :
        LET d == DescriptorOf(tracks_manager[k]) IN
        /\ Cardinality({j \in 1..Len(d) : d[j] # 0}) = 5
        /\ \A j \in 1..Len(d) : d[j] # 0 => (0 <= d[j] /\ d[j] <= 255)

\* C3: within each shot the k-th emitted observation (0-based) has feature
\* index k, and row k of the shot's features, descriptors and colors arrays
\* holds that observation's projection, its point's descriptor and its
\* point's color; the arrays have one row per observation, so culled points
\* consume no index.
FeatureIndexIsEmissionOrder ==
    \A a \in 1..Len(reconstruction.shots) :
        LET obs == ObservationsOf(a)
            f == Rows(features, projections_inside, a)
            d == Rows(descriptors, descriptors_inside, a)
            c == Rows(colors, colors_inside, a)
        IN /\ Len(f) = Len(obs) /\ Len(d) = Len(obs) /\ Len(c) = Len(obs)
           /\ \A k \in 1..Len(obs) :
                LET point == reconstruction.points[
                                 IndexOf(reconstruction.points, obs[k].track)]
                IN /\ obs[k].obs.id = k - 1
                   /\ f[k] = <<obs[k].obs.x, obs[k].obs.y, obs[k].obs.scale>>
                   /\ c[k] = point.color
                   /\ obs[k].obs.color = point.color
                   /\ d[k] = At(track_descriptors, obs[k].track)

\* a finished run where a shot culled the first point and gave the second
\* point the feature index 0, and another shot emitted both points
FeatureIndexWitness ==
    /\ pc = "done"
    /\ Len(reconstruction.points) = 2
    /\ \E a \in 1..Len(reconstruction.shots) :
         /\ ~Observed(a, 1)
         /\ Len(ObservationsOf(a)) = 1
         /\ ObservationsOf(a)[1].obs.id = 0
    /\ \E a \in 1..Len(reconstruction.shots) : Len(ObservationsOf(a)) = 2

\* C4: two observations of the same point emitted for different shots carry
\* the identical descriptor; no observation is emitted before the descriptor
\* loop is over, and from then on track_descriptors holds one descriptor per
\* point, the one every observation of that point carries.
DescriptorSharedAcrossShots ==
    /\ \A i, j \in 1..Len(tracks_manager) :
         (tracks_manager[i].track = tracks_manager[j].track
            /\ tracks_manager[i].shot # tracks_manager[j].shot)
         => DescriptorOf(tracks_manager[i]) = DescriptorOf(tracks_manager[j])
    /\ pc = "descriptors" => tracks_manager = <<>>
    /\ pc # "descriptors" => Keys(track_descriptors) = Keys(reconstruction.points)

\* a finished run where two shots observed the same point, and the two
\* points of the scene got different descriptors
DescriptorSharedWitness ==
    /\ pc = "done"
    /\ Len(reconstruction.points) = 2
    /\ track_descriptors[1].value # track_descriptors[2].value
    /\ \E i, j \in 1..Len(tracks_manager) :
         /\ tracks_manager[i].track = tracks_manager[j].track
         /\ tracks_manager[i].shot # tracks_manager[j].shot

\* C5: when generate_track_data has finished, no (shot id, point id) pair
\* was added to the track container more than once, every shot id is a key
\* of reconstruction.shots and every point id a key of reconstruction.points.
ObservationsUniqueAndKnown ==
    pc = "done" =>
        /\ \A i, j \in 1..Len(tracks_manager) :
             i # j => <<tracks_manager[i].shot, tracks_manager[i].track>>
                        # <<tracks_manager[j].shot, tracks_manager[j].track>>
        /\ \A i \in 1..Len(tracks_manager) :
             /\ tracks_manager[i].shot \in Range(Keys(reconstruction.shots))
             /\ tracks_manager[i].track \in Range(Keys(reconstruction.points))

\* a finished run with three observations: one shot observed both points and
\* the other shot one of them
ObservationsUniqueWitness ==
    /\ pc = "done"
    /\ Len(tracks_manager) = 3

----------------------------------------------------------------------------
(* C6 *)

\* the origin of the shot of that name, as the reconstruction holds it
OriginOf(shot_name) ==
    reconstruction.shots[IndexOf(reconstruction.shots, shot_name)].origin

\* C6: generate_exifs visits the shots in ascending order of shot id; the
\* first visited shot gets capture_time 0 and each later one the previous
\* capture_time plus 10.0 times the distance between the two unperturbed
\* camera origins, whatever GPS perturbation the previous shot got; so
\* capture_time never decreases along the traversal.
CaptureTimeAccumulates ==
    LET visited == Keys(exifs)
        n == Len(visited)
    IN /\ n = exif_iter
       /\ \A k, l \in 1..n : k < l => StrLess(visited[k], visited[l])
       /\ \A id \in Range(Keys(reconstruction.shots)) \ Range(visited) :
            \A k \in 1..n : StrLess(visited[k], id)
       /\ n >= 1 => exifs[1].value.capture_time = 0
       /\ \A k \in 2..n :
            exifs[k].value.capture_time =
                exifs[k - 1].value.capture_time
                  + 10 * norm(Sub(OriginOf(visited[k]), OriginOf(visited[k - 1])))
       /\ \A k, l \in 1..n :
            k < l => exifs[k].value.capture_time <= exifs[l].value.capture_time

\* a finished traversal of "2", "10", "1" in the order "1", "10", "2", in
\* which every shot's GPS position was perturbed and time moved on twice
CaptureTimeWitness ==
    /\ pc = "exifs_done"
    /\ Keys(reconstruction.shots) = <<str(2), str(10), str(1)>>
    /\ Keys(exifs) = <<str(1), str(10), str(2)>>
    /\ \A k \in 1..3 : exifs[k].value.gps # OriginOf(exifs[k].id)
    /\ exifs[1].value.capture_time < exifs[2].value.capture_time
    /\ exifs[2].value.capture_time < exifs[3].value.capture_time

----------------------------------------------------------------------------
(* C8 *)

\* C8: _is_inside_camera accepts a projection exactly when its coordinate
\* along the longer sensor dimension lies strictly inside (-1/2, 1/2) and
\* its coordinate along the shorter one strictly inside
\* +/- short / (2 long): x is the long axis when width > height, y when
\* height > width, and a square camera bounds both by (-1/2, 1/2); a
\* coordinate on a bound (or not a number) is rejected.
InsideIsStrictSensorBox ==
    pc = "inside_done" =>
        LET x == arg_projection[1]
            y == arg_projection[2]
            w == arg_camera.width
            h == arg_camera.height
        IN is_inside <=>
             /\ x[2] # 0 /\ y[2] # 0
             /\ w > h => /\ 2 * Abs(x[1]) < x[2]
                         /\ 2 * w * Abs(y[1]) < h * y[2]
             /\ h > w => /\ 2 * Abs(y[1]) < y[2]
                         /\ 2 * h * Abs(x[1]) < w * x[2]
             /\ w = h => /\ 2 * Abs(x[1]) < x[2]
                         /\ 2 * Abs(y[1]) < y[2]

\* a landscape camera rejects a projection whose x is 0 and whose y is
\* exactly height / (2 width)
InsideOnBoundWitness ==
    /\ pc = "inside_done"
    /\ arg_camera.width > arg_camera.height
    /\ arg_projection[1] = <<0, 2>>
    /\ arg_projection[2][2] # 0
    /\ 2 * arg_camera.width * arg_projection[2][1]
         = arg_camera.height * arg_projection[2][2]
    /\ ~is_inside

====
